---- MODULE Spec2Model ----
(***************************************************************************)
(* Model of tuikit's navigation engine (src/tuikit.py): the UI object with *)
(* its page list and current-page cursor, the pages with their elements    *)
(* and selection, the key transition function handle_navigation_key, the   *)
(* numeric path of ask_input and the element invocation (_Element.__call__)*)
(*                                                                         *)
(* Objects are identities: pages are the numbers 1..MaxPages, elements the *)
(* numbers 1..MaxElems, None is 0.  The constructor arguments of an object *)
(* (label, command, params) are a fixed function of its identity, and the  *)
(* constructors take the identities in order.  Python lists are sequences; *)
(* a Python index i is the TLA+ index i+1.  A call records its arguments,  *)
(* the state it started in and its outcome in the variable last: the value *)
(* returned and, by its class name, the exception raised.  Calls do not    *)
(* overlap: the caller takes the outcome (Return) before the next call.    *)
(*                                                                         *)
(* Spec is the UI driven call by call.  SpecInvoke is one element on its   *)
(* own, constructed with any command and any payload and then called.      *)
(* SpecLoop is UI.loop reading the bytes a user types, through either      *)
(* get_keypress (nt, posix), ask_input and the handlers above.             *)
(***************************************************************************)
EXTENDS Integers, Sequences, FiniteSets, TLC

\* ------------------------------------------------------------------ bounds
MaxPages == 2
MaxElems == 2
\* the longest tuple or list stored as an element's params
MaxArgs == 3
\* the number of bytes the user types into the terminal
MaxInput == 3

None == 0
PageIds == 1..MaxPages
ElemIds == 1..MaxElems

\* --------------------------------------------------------- Python lists

\* x in lst
Contains(lst, x) == \E i \in 1..Len(lst) : lst[i] = x

\* lst.index(x) as a Python (0-based) index; the caller guards membership
PyIndexOf(lst, x) == (CHOOSE i \in 1..Len(lst) : lst[i] = x /\ \A j \in 1..(i-1) : lst[j] # x) - 1

\* lst[i] is defined for -len <= i < len (negative indices count from the end)
PyValidIndex(lst, i) == -Len(lst) <= i /\ i < Len(lst)

\* lst[i] for a valid Python index i
PyGet(lst, i) == IF i >= 0 THEN lst[i + 1] ELSE lst[Len(lst) + i + 1]

\* the list without the item at TLA+ position pos
RemoveAt(lst, pos) == [j \in 1..(Len(lst) - 1) |-> IF j < pos THEN lst[j] ELSE lst[j + 1]]

\* lst.pop(i) for a valid Python index i: the remaining list
PyPop(lst, i) == RemoveAt(lst, IF i >= 0 THEN i + 1 ELSE Len(lst) + i + 1)

\* lst.remove(x): the list without the first occurrence of x
PyRemove(lst, x) == RemoveAt(lst, PyIndexOf(lst, x) + 1)

\* ------------------------------------------------------ object attributes

\* _Page.__init__: the page's label (two pages may carry the same label)
PageLabel(p) == IF p % 2 = 1 THEN "A" ELSE "B"

\* the default of getattr(p, "name", None): Python's None, which equals no string
NoAttr == "<None>"

\* getattr(p, "name", None) in delete_page: a _Page has a label and no name
PageNameAttr(p) == NoAttr

\* _Element.__init__: label (the first two elements carry the same label)
ElemLabel(e) == IF e % 3 = 0 THEN "B" ELSE "A"

\* command=None: no bound command
NoCommand == "None"

\* the values a payload is made of
Values == {1, 2, 5}

\* the sequences over S of length at most n
SeqsUpTo(S, n) == UNION {[1..k -> S] : k \in 0..n}

\* A payload (params) is [tuple |-> it is a Python tuple, iter |-> it can be
\* unpacked by *params, vals |-> its values]
\* params=None
NonePayload == [tuple |-> FALSE, iter |-> FALSE, vals |-> << >>]
\* params=v, a single value that is no sequence
Scalar(v) == [tuple |-> FALSE, iter |-> FALSE, vals |-> <<v>>]
\* params=(v1, ..., vn)
TuplePayload(vs) == [tuple |-> TRUE, iter |-> TRUE, vals |-> vs]
\* params=[v1, ..., vn]
ListPayload(vs) == [tuple |-> FALSE, iter |-> TRUE, vals |-> vs]

\* the payloads an element is constructed with
Payloads ==
    {NonePayload} \cup {Scalar(v) : v \in Values}
    \cup {TuplePayload(vs) : vs \in SeqsUpTo(Values, MaxArgs)}
    \cup {ListPayload(vs) : vs \in SeqsUpTo(Values, MaxArgs)}

\* _Element.__init__: command.  "goto": the bound method ui.goto; None: no
\* command; "hello": def hello(); "add": def add(a, b)
ElemCommand(e) ==
    CASE e % 4 = 1 -> "goto"
      [] e % 4 = 2 -> NoCommand
      [] e % 4 = 3 -> "hello"
      [] OTHER     -> "add"

\* _Element.__init__: params.  A payload is [tuple |-> whether it is a Python
\* tuple, vals |-> its values]; params=None is the non-tuple with no value.
\* goto's payload is the page 2; add's payload is the 1-tuple (1,), which does
\* not fit add(a, b)
ElemParams(e) ==
    CASE e % 4 = 1 -> Scalar(2)
      [] e % 4 = 2 -> NonePayload
      [] e % 4 = 3 -> NonePayload
      [] OTHER     -> TuplePayload(<<1>>)

\* the callables bound as commands: def hello(), the bound method
\* ui.make_header (self), def switch_ui_to_page_idx(idx), the bound method
\* ui.goto (self, page), def add(a, b), a def add3(a, b, c), def say(*what)
Commands == {"hello", "make_header", "switch", "goto", "add", "add3", "say"}

\* command.__code__.co_argcount (*what is not counted)
CoArgcount(cmd) ==
    CASE cmd = "hello"       -> 0
      [] cmd = "make_header" -> 1
      [] cmd = "switch"      -> 1
      [] cmd = "goto"        -> 2
      [] cmd = "add"         -> 2
      [] cmd = "add3"        -> 3
      [] OTHER               -> 0

\* command.__code__.co_varnames[0] == 'self'
FirstVarIsSelf(cmd) == cmd \in {"goto", "make_header"}

\* the callable takes any number of further positional arguments (*what)
Variadic(cmd) == cmd = "say"

\* the number of positional arguments the callable accepts when called
\* (a bound method's self is already supplied)
Accepts(cmd) == IF FirstVarIsSelf(cmd) THEN CoArgcount(cmd) - 1 ELSE CoArgcount(cmd)

\* _Element.__call__, the argument count it works with: co_argcount, less one
\* when the first variable is named self
Argcount(cmd) ==
    IF CoArgcount(cmd) > 0 /\ FirstVarIsSelf(cmd) THEN CoArgcount(cmd) - 1 ELSE CoArgcount(cmd)

\* a call that runs the body whatever arguments it is given
PyCallLenient(cmd, args) ==
    [entered |-> TRUE, ran |-> TRUE, args |-> args, raised |-> "none"]

\* command(*args): Python raises TypeError, before the body runs, unless the
\* callable accepts the arguments given
PyCall(cmd, args) ==
    IF Len(args) = Accepts(cmd) \/ (Variadic(cmd) /\ Len(args) >= Accepts(cmd))
    THEN [entered |-> TRUE, ran |-> TRUE, args |-> args, raised |-> "none"]
    ELSE [entered |-> TRUE, ran |-> FALSE, args |-> args, raised |-> "TypeError"]

\* a __call__ that unpacks a tuple payload for a one-argument command too
InvokeUnpacking(cmd, params) ==
    IF cmd = NoCommand
    THEN [entered |-> FALSE, ran |-> FALSE, args |-> << >>, raised |-> "none"]
    ELSE IF Argcount(cmd) = 0 /\ ~params.tuple
    THEN PyCall(cmd, << >>)
    ELSE IF Argcount(cmd) = 1 /\ ~params.tuple
    THEN PyCall(cmd, <<params>>)
    ELSE IF ~params.iter
    THEN [entered |-> TRUE, ran |-> FALSE, args |-> << >>, raised |-> "TypeError"]
    ELSE PyCall(cmd, params.vals)

\* a __call__ without the test for a bound command: None has no __code__
InvokeUnguarded(cmd, params) ==
    IF cmd = NoCommand
    THEN [entered |-> FALSE, ran |-> FALSE, args |-> << >>, raised |-> "AttributeError"]
    ELSE IF Argcount(cmd) = 0 /\ ~params.tuple
    THEN PyCall(cmd, << >>)
    ELSE IF Argcount(cmd) = 1
    THEN PyCall(cmd, <<params>>)
    ELSE IF ~params.iter
    THEN [entered |-> TRUE, ran |-> FALSE, args |-> << >>, raised |-> "TypeError"]
    ELSE PyCall(cmd, params.vals)

\* _Element.__call__ on an element with this command and payload.  entered:
\* a command was bound; ran: the command's body was executed; args: the
\* arguments passed (a payload passed whole is one argument); raised: the
\* exception that left __call__
Invoke(cmd, params) ==
    IF cmd = NoCommand
    THEN [entered |-> FALSE, ran |-> FALSE, args |-> << >>, raised |-> "none"]
    ELSE IF Argcount(cmd) = 0 /\ ~params.tuple
    THEN PyCall(cmd, << >>)
    ELSE IF Argcount(cmd) = 1
    THEN PyCall(cmd, <<params>>)
    ELSE IF ~params.iter
    THEN [entered |-> TRUE, ran |-> FALSE, args |-> << >>, raised |-> "TypeError"]
    ELSE PyCall(cmd, params.vals)

VARIABLES
    pages,      \* UI.pages: the list of member pages
    cur,        \* UI._current_page: a page or None
    idx,        \* UI._current_page_index
    created,    \* the pages constructed by add_page so far
    elements,   \* _Page.elements of every page
    selected,   \* _Page._selected_element of every page
    made,       \* the elements constructed by add_element so far
    last,       \* the last operation: its name, argument and outcome
    command,    \* _Element.command of the element invoked on its own
    params,     \* _Element.params of that element
    result,     \* the outcome of that element's __call__
    platform,   \* os.name: which get_keypress is defined
    stdin,      \* the bytes typed and not read yet
    mode,       \* the terminal mode: "cooked" or "raw"
    saved,      \* old_settings: the terminal mode get_keypress found
    pc,         \* where UI.loop is
    got,        \* the bytes the running (or last) get_keypress call has read
    keypress,   \* the value get_keypress returned
    error       \* the exception on its way out of the loop

uiVars == <<pages, cur, idx, created, elements, selected, made, last>>
adapterVars == <<command, params, result>>
loopVars == <<platform, stdin, mode, saved, pc, got, keypress, error>>
vars == <<uiVars, adapterVars, loopVars>>

\* ------------------------------------------------------------- the UI

\* UI.current_page setter: only a member page becomes current
SetCurrentPage(ps, c, i, page) ==
    IF Contains(ps, page)
    THEN [cur |-> page, idx |-> PyIndexOf(ps, page)]
    ELSE [cur |-> c, idx |-> i]

\* an index setter that takes a negative index the way a Python list does
SetCurrentPageIndexWrapping(ps, c, i, n) ==
    IF PyValidIndex(ps, n)
    THEN [cur |-> PyGet(ps, n), idx |-> n]
    ELSE [cur |-> c, idx |-> i]

\* UI.current_page_index setter: only an index in range is taken
SetCurrentPageIndex(ps, c, i, n) ==
    IF 0 <= n /\ n < Len(ps)
    THEN [cur |-> ps[n + 1], idx |-> n]
    ELSE [cur |-> c, idx |-> i]

\* a goto that makes any page current, member or not
GotoPageUnguarded(ps, c, i, page) ==
    IF Contains(ps, page) THEN SetCurrentPage(ps, c, i, page) ELSE [cur |-> page, idx |-> i]

\* UI.goto(page) for a _Page instance
GotoPage(ps, c, i, page) ==
    IF Contains(ps, page) THEN SetCurrentPage(ps, c, i, page) ELSE [cur |-> c, idx |-> i]

\* an add_page that makes every new page current
AddPageCursorAlways(ps, c, i, page) == SetCurrentPage(ps, c, i, page)

\* UI.add_page once the page is appended (ps is the list with the new page):
\* the new page becomes current if it is the only page
AddPageCursor(ps, c, i, page) ==
    IF Len(ps) = 1 THEN SetCurrentPage(ps, c, i, page) ELSE [cur |-> c, idx |-> i]

\* the first page of ps whose name attribute equals the string, or None:
\* the for loop of delete_page
FirstNamed(ps, name) ==
    IF \E k \in 1..Len(ps) : PageNameAttr(ps[k]) = name
    THEN ps[CHOOSE k \in 1..Len(ps) :
                PageNameAttr(ps[k]) = name /\ \A j \in 1..(k-1) : PageNameAttr(ps[j]) # name]
    ELSE None

\* UI.delete_page(page) for a page object: the page list left, and the exception
DeletePageObject(ps, page) ==
    IF Contains(ps, page)
    THEN [pages |-> PyRemove(ps, page), raised |-> "none"]
    ELSE [pages |-> ps, raised |-> "TypeError"]

\* delete_page(str) that returns silently when no page carries the name
DeletePageStringSilent(ps, name) ==
    IF FirstNamed(ps, name) # None
    THEN DeletePageObject(ps, FirstNamed(ps, name))
    ELSE [pages |-> ps, raised |-> "none"]

\* UI.delete_page(page) for a string: the page list left, and the exception
DeletePageString(ps, name) ==
    IF FirstNamed(ps, name) # None
    THEN DeletePageObject(ps, FirstNamed(ps, name))
    ELSE [pages |-> ps, raised |-> "ValueError"]

\* the effect of an executed command on the cursor: ui.goto(page) moves it,
\* the other commands leave the UI alone
CommandEffect(cmd, args, ps, c, i) ==
    IF cmd = "goto" /\ ~args[1].iter /\ Len(args[1].vals) = 1
    THEN GotoPage(ps, c, i, args[1].vals[1])
    ELSE [cur |-> c, idx |-> i]

\* element(): _Element.__call__ on element e, with the cursor it leaves
CallElement(e, ps, c, i) ==
    LET r == Invoke(ElemCommand(e), ElemParams(e))
        after == IF r.ran THEN CommandEffect(ElemCommand(e), r.args, ps, c, i)
                 ELSE [cur |-> c, idx |-> i]
    IN [raised |-> r.raised,
        calls |-> IF r.entered THEN <<e>> ELSE << >>,
        ran |-> IF r.ran THEN <<e>> ELSE << >>,
        cur |-> after.cur, idx |-> after.idx]

\* ------------------------------------------------------------ the pages

\* _Page.selected_element setter: None, or a member of the page's elements
SetSelectedElement(elems, sel, element) ==
    IF element # None /\ ~Contains(elems, element) THEN sel ELSE element

\* the for loop of delete_element(str) from Python index i on: every item with
\* the label is popped while the enumeration goes on over the shrinking list
RECURSIVE DeleteLabelled(_, _, _)
DeleteLabelled(elems, label, i) ==
    IF i >= Len(elems) THEN elems
    ELSE IF ElemLabel(elems[i + 1]) = label
         THEN DeleteLabelled(PyPop(elems, i), label, i + 1)
         ELSE DeleteLabelled(elems, label, i + 1)

\* ----------------------------------------------------------- the record

\* the state of the UI and its pages, as an operation finds it
Snapshot ==
    [pages |-> pages, cur |-> cur, idx |-> idx, elements |-> elements, selected |-> selected]

\* the record of a call: op, the operation; p, e, i, s: its page, element,
\* integer and string argument; raised: the exception that left it; ret: the
\* object returned, retKey: the key itself was returned; calls: the elements
\* whose __call__ reached a bound command; ran: the elements whose command was
\* executed; pre: the state the call started in; held: the page the caller got
\* from add_page, and the label it asked for, when the call before was add_page
Record(op, p, e, i, s) ==
    [op |-> op, p |-> p, e |-> e, i |-> i, s |-> s,
     raised |-> "none", ret |-> None, retKey |-> FALSE,
     calls |-> << >>, ran |-> << >>, pre |-> Snapshot,
     held |-> [page |-> last.ret, label |-> last.s]]

\* no call is in progress: the caller is between two calls
NoCall ==
    [op |-> "idle", p |-> None, e |-> None, i |-> 0, s |-> "",
     raised |-> "none", ret |-> None, retKey |-> FALSE,
     calls |-> << >>, ran |-> << >>,
     pre |-> [pages |-> << >>, cur |-> None, idx |-> -1,
              elements |-> [p \in PageIds |-> << >>],
              selected |-> [p \in PageIds |-> None]],
     held |-> [page |-> None, label |-> ""]]

\* the caller is between two calls
Idle == last.op = "idle"

\* __call__ has not been called on the element yet
NotCalled == [entered |-> FALSE, ran |-> FALSE, args |-> << >>, raised |-> "pending"]

\* the UI before any call
InitUI ==
    /\ pages = << >>
    /\ cur = None
    /\ idx = -1
    /\ created = {}
    /\ elements = [p \in PageIds |-> << >>]
    /\ selected = [p \in PageIds |-> None]
    /\ made = {}
    /\ last = NoCall

\* an element constructed without command and payload, not called
InitAdapter ==
    /\ command = NoCommand
    /\ params = NonePayload
    /\ result = NotCalled

\* the value of key before get_keypress has returned
NoKeyYet == "<unset>"

\* the value of old_settings before tcgetattr has returned
NotSaved == "<unsaved>"

\* UI.loop is not running: the terminal is as the shell left it
InitTerminal ==
    /\ platform = "posix"
    /\ stdin = << >>
    /\ mode = "cooked"
    /\ saved = NotSaved
    /\ pc = "off"
    /\ got = << >>
    /\ keypress = NoKeyYet
    /\ error = "none"

\* a step of the UI and its pages: the element on its own and the loop are
\* not involved
OnlyUI == UNCHANGED <<adapterVars, loopVars>>

Init == InitUI /\ InitAdapter /\ InitTerminal

\* ------------------------------------------------------- UI operations

\* UI.add_page(label): page p is constructed (no elements, no selection) and
\* appended
AddPage(p) ==
    /\ Idle
    /\ p = Cardinality(created) + 1
    /\ LET ps == Append(pages, p)
           c == AddPageCursor(ps, cur, idx, p)
       IN /\ pages' = ps
          /\ cur' = c.cur
          /\ idx' = c.idx
    /\ created' = created \cup {p}
    /\ elements' = [elements EXCEPT ![p] = << >>]
    /\ selected' = [selected EXCEPT ![p] = None]
    /\ last' = [Record("add_page", p, None, 0, PageLabel(p)) EXCEPT !.ret = p]
    /\ UNCHANGED made
    /\ OnlyUI

\* UI.goto(page)
Goto(p) ==
    /\ Idle
    /\ LET c == GotoPage(pages, cur, idx, p)
       IN cur' = c.cur /\ idx' = c.idx
    /\ last' = Record("goto", p, None, 0, "")
    /\ UNCHANGED <<pages, created, elements, selected, made>>
    /\ OnlyUI

\* ui.current_page_index = n
SetIndex(n) ==
    /\ Idle
    /\ LET c == SetCurrentPageIndex(pages, cur, idx, n)
       IN cur' = c.cur /\ idx' = c.idx
    /\ last' = Record("set_current_index", None, None, n, "")
    /\ UNCHANGED <<pages, created, elements, selected, made>>
    /\ OnlyUI

\* UI.delete_page(page) given a page object
DeletePage(p) ==
    /\ Idle
    /\ LET r == DeletePageObject(pages, p)
       IN /\ pages' = r.pages
          /\ last' = [Record("delete_page", p, None, 0, "") EXCEPT !.raised = r.raised]
    /\ UNCHANGED <<cur, idx, created, elements, selected, made>>
    /\ OnlyUI

\* UI.delete_page(name) given a string
DeletePageByName(name) ==
    /\ Idle
    /\ LET r == DeletePageString(pages, name)
       IN /\ pages' = r.pages
          /\ last' = [Record("delete_page", None, None, 0, name) EXCEPT !.raised = r.raised]
    /\ UNCHANGED <<cur, idx, created, elements, selected, made>>
    /\ OnlyUI

\* ------------------------------------------------------------- the keys

\* the key strings get_keypress hands over; Backspace stands for '\x08'
Enter == "\r"
Backspace == "backspace"
Keys == {Enter, "d", "right", "a", "left", "w", "up", "s", "down", Backspace, "x"}

\* what a branch of handle_navigation_key leaves: the exception, the
\* selections, the cursor, the value returned and the invocations made
Outcome(raised, sel, c, i, ret, retKey, calls, ran) ==
    [raised |-> raised, selected |-> sel, cur |-> c, idx |-> i,
     ret |-> ret, retKey |-> retKey, calls |-> calls, ran |-> ran]

\* an exception leaves the branch: nothing was written
Raise(exc) == Outcome(exc, selected, cur, idx, None, FALSE, << >>, << >>)

\* key == '\r': the selected element of the current page is called, and the
\* selected element of the page that is current after the call is returned
EnterKey ==
    IF cur = None THEN Raise("AttributeError")
    ELSE IF selected[cur] = None
    THEN Outcome("none", selected, cur, idx, None, FALSE, << >>, << >>)
    ELSE LET r == CallElement(selected[cur], pages, cur, idx)
         IN IF r.raised # "none"
            THEN Outcome(r.raised, selected, r.cur, r.idx, None, FALSE, r.calls, r.ran)
            ELSE Outcome("none", selected, r.cur, r.idx, selected[r.cur], FALSE, r.calls, r.ran)

\* the page index 'd'/'right' (step 1) and 'a'/'left' (step -1) ask for
StepIndex(i, step) == i + step

\* key 'd', 'right', 'a', 'left': the selection of pages[current_page_index]
\* is set to None, then current_page_index is assigned the stepped index
PageKey(step) ==
    IF ~PyValidIndex(pages, idx) THEN Raise("IndexError")
    ELSE LET page == PyGet(pages, idx)
             sel == [selected EXCEPT ![page] = SetSelectedElement(elements[page], selected[page], None)]
             c == SetCurrentPageIndex(pages, cur, idx, StepIndex(idx, step))
         IN Outcome("none", sel, c.cur, c.idx, None, TRUE, << >>, << >>)

\* key 'w', 'up' on a page with these elements and this selection: the element
\* to select, or None when the branch writes nothing; the caller guards
\* elements.index
UpTarget(elems, sel) ==
    IF sel = None /\ elems # << >> THEN PyGet(elems, -1)
    ELSE IF PyIndexOf(elems, sel) > 0 THEN PyGet(elems, PyIndexOf(elems, sel) - 1)
    ELSE None

\* Down that wraps from the last element round to the first
DownTargetWrapping(elems, sel) ==
    IF elems # << >> /\ sel = None THEN PyGet(elems, 0)
    ELSE PyGet(elems, (PyIndexOf(elems, sel) + 1) % Len(elems))

\* key 's', 'down': likewise
DownTarget(elems, sel) ==
    IF elems # << >> /\ sel = None THEN PyGet(elems, 0)
    ELSE IF PyIndexOf(elems, sel) < Len(elems) - 1 THEN PyGet(elems, PyIndexOf(elems, sel) + 1)
    ELSE None

\* key 'w', 'up', 's', 'down' on the page captured at entry
SelectKey(up) ==
    IF cur = None THEN Raise("AttributeError")
    ELSE LET elems == elements[cur]
             sel == selected[cur]
         IN IF ~(sel = None /\ elems # << >>) /\ ~Contains(elems, sel)
            THEN Raise("ValueError")
            ELSE LET t == IF up THEN UpTarget(elems, sel) ELSE DownTarget(elems, sel)
                 IN IF t = None
                    THEN Outcome("none", selected, cur, idx, None, TRUE, << >>, << >>)
                    ELSE Outcome("none",
                                 [selected EXCEPT ![cur] = SetSelectedElement(elems, sel, t)],
                                 cur, idx, None, TRUE, << >>, << >>)

\* UI.handle_navigation_key(key)
HandleNavigationKey(key) ==
    IF key = Enter THEN EnterKey
    ELSE IF key = "d" \/ key = "right" THEN PageKey(1)
    ELSE IF key = "a" \/ key = "left" THEN PageKey(-1)
    ELSE IF key = "w" \/ key = "up" THEN SelectKey(TRUE)
    ELSE IF key = "s" \/ key = "down" THEN SelectKey(FALSE)
    ELSE Outcome("none", selected, cur, idx, None, TRUE, << >>, << >>)

\* a call of handle_navigation_key
HandleKey(key) ==
    /\ Idle
    /\ LET r == HandleNavigationKey(key)
       IN /\ selected' = r.selected
          /\ cur' = r.cur
          /\ idx' = r.idx
          /\ last' = [Record("handle_key", None, None, 0, key) EXCEPT
                        !.raised = r.raised, !.ret = r.ret, !.retKey = r.retKey,
                        !.calls = r.calls, !.ran = r.ran]
    /\ UNCHANGED <<pages, created, elements, made>>
    /\ OnlyUI

\* ------------------------------------------------------------ ask_input

\* the number taken as a 0-based index: elements[k]
DigitIndexZeroBased(k) == k

\* the element the number k chooses: elements[k-1]
DigitIndex(k) == k - 1

\* whether the number typed chooses an element of a page with n elements
DigitAccepted(k, n) == k <= n

\* UI.ask_input once the typed text is the number k: the choice by index
AskNumber(k) ==
    IF cur = None
    THEN Outcome("none", selected, cur, idx, None, FALSE, << >>, << >>)
    ELSE IF ~DigitAccepted(k, Len(elements[cur]))
    THEN Outcome("none", selected, cur, idx, None, FALSE, << >>, << >>)
    ELSE IF ~PyValidIndex(elements[cur], DigitIndex(k)) THEN Raise("IndexError")
    ELSE LET r == CallElement(PyGet(elements[cur], DigitIndex(k)), pages, cur, idx)
         IN Outcome(r.raised, selected, r.cur, r.idx, None, FALSE, r.calls, r.ran)

\* a call of ask_input in which the user types the number k
AskInput(k) ==
    /\ Idle
    /\ LET r == AskNumber(k)
       IN /\ selected' = r.selected
          /\ cur' = r.cur
          /\ idx' = r.idx
          /\ last' = [Record("ask_input", None, None, k, "") EXCEPT
                        !.raised = r.raised, !.calls = r.calls, !.ran = r.ran]
    /\ UNCHANGED <<pages, created, elements, made>>
    /\ OnlyUI

\* -------------------------------------------------------- page operations

\* _Page.add_element(...): element e is constructed and appended to page p
AddElement(p, e) ==
    /\ Idle
    /\ p \in created
    /\ e = Cardinality(made) + 1
    /\ elements' = [elements EXCEPT ![p] = Append(@, e)]
    /\ made' = made \cup {e}
    /\ last' = [Record("add_element", p, e, 0, ElemLabel(e)) EXCEPT !.ret = e]
    /\ UNCHANGED <<pages, cur, idx, created, selected>>
    /\ OnlyUI

\* _Page.delete_element(i) for an int: elements.pop(i)
DeleteElementAt(p, i) ==
    /\ Idle
    /\ p \in created
    /\ IF PyValidIndex(elements[p], i)
       THEN /\ elements' = [elements EXCEPT ![p] = PyPop(@, i)]
            /\ last' = Record("delete_element", p, None, i, "")
       ELSE /\ elements' = elements
            /\ last' = [Record("delete_element", p, None, i, "") EXCEPT !.raised = "IndexError"]
    /\ UNCHANGED <<pages, cur, idx, created, selected, made>>
    /\ OnlyUI

\* _Page.delete_element(e) for an _Element: elements.remove(e)
DeleteElement(p, e) ==
    /\ Idle
    /\ p \in created
    /\ e \in made
    /\ IF Contains(elements[p], e)
       THEN /\ elements' = [elements EXCEPT ![p] = PyRemove(@, e)]
            /\ last' = Record("delete_element", p, e, 0, "")
       ELSE /\ elements' = elements
            /\ last' = [Record("delete_element", p, e, 0, "") EXCEPT !.raised = "ValueError"]
    /\ UNCHANGED <<pages, cur, idx, created, selected, made>>
    /\ OnlyUI

\* _Page.delete_element(label) for a string
DeleteElementByLabel(p, label) ==
    /\ Idle
    /\ p \in created
    /\ elements' = [elements EXCEPT ![p] = DeleteLabelled(@, label, 0)]
    /\ last' = Record("delete_element", p, None, 0, label)
    /\ UNCHANGED <<pages, cur, idx, created, selected, made>>
    /\ OnlyUI

\* page.selected_element = e
Select(p, e) ==
    /\ Idle
    /\ p \in created
    /\ e \in made \cup {None}
    /\ selected' = [selected EXCEPT ![p] = SetSelectedElement(elements[p], @, e)]
    /\ last' = Record("select", p, e, 0, "")
    /\ UNCHANGED <<pages, cur, idx, created, elements, made>>
    /\ OnlyUI

\* ---------------------------------------------------------- the system

\* the strings given to delete_page and delete_element
Strings == {"A", "B", "Z"}

\* the call returns to the caller, which takes its outcome: page = add_page(label)
\* leaves the caller with the page and the label until its next call
Return ==
    /\ ~Idle
    /\ last' = IF last.op = "add_page"
               THEN [NoCall EXCEPT !.ret = last.ret, !.s = last.s]
               ELSE NoCall
    /\ UNCHANGED <<pages, cur, idx, created, elements, selected, made>>
    /\ OnlyUI

\* one call at a time (the caller is single-threaded): a call of the UI or of
\* one of its pages starts when the last has returned
Next ==
    \/ \E p \in PageIds : AddPage(p)
    \/ \E p \in PageIds : Goto(p)
    \/ \E n \in -1..MaxPages : SetIndex(n)
    \/ \E p \in PageIds : DeletePage(p)
    \/ \E name \in Strings : DeletePageByName(name)
    \/ \E key \in Keys : HandleKey(key)
    \/ \E k \in 0..(MaxElems + 1) : AskInput(k)
    \/ \E p \in PageIds, e \in ElemIds : AddElement(p, e)
    \/ \E p \in PageIds, i \in -1..MaxElems : DeleteElementAt(p, i)
    \/ \E p \in PageIds, e \in ElemIds : DeleteElement(p, e)
    \/ \E p \in PageIds, label \in Strings : DeleteElementByLabel(p, label)
    \/ \E p \in PageIds, e \in ElemIds \cup {None} : Select(p, e)
    \/ Return

Spec == Init /\ [][Next]_vars

\* ------------------------------------------------- an element on its own

\* _Element(label, command, params): any command, bound or not, with any payload
InitInvoke ==
    /\ InitUI
    /\ InitTerminal
    /\ command \in Commands \cup {NoCommand}
    /\ params \in Payloads
    /\ result = NotCalled

\* element(): _Element.__call__ on the element constructed
ElementCall ==
    /\ result = NotCalled
    /\ result' = Invoke(command, params)
    /\ UNCHANGED <<command, params>>
    /\ UNCHANGED <<uiVars, loopVars>>

NextInvoke == ElementCall

SpecInvoke == InitInvoke /\ [][NextInvoke]_vars

\* ------------------------------------------------ the keys of the terminal

\* the bytes: ETX is '\x03' (Ctrl+C), ESC '\x1b', NUL b'\x00', E0 b'\xe0'
ETX == "^C"
ESC == "ESC"
NUL == "NUL"
E0 == "E0"

\* the bytes a user types, by platform
PosixBytes == {ETX, ESC, "[", "A", "B", "C", "D", "1", Enter, "w", "x"}
NtBytes == {ETX, NUL, E0, "H", "P", "K", "M", "1", Enter, "w", "x"}
BytesOf(os) == IF os = "nt" THEN NtBytes ELSE PosixBytes

\* get_keypress returned None
KeyNone == "<None>"

\* a first byte that is never taken for Ctrl+C
InterruptsNever(os, b) == FALSE

\* get_keypress: the first byte is Ctrl+C.  nt raises KeyboardInterrupt;
\* posix sends SIGINT to its own process, and Python's handler of SIGINT
\* raises KeyboardInterrupt out of os.kill
Interrupts(os, b) == b = ETX

\* get_keypress: the first byte introduces an arrow key
Introducer(os, b) == IF os = "nt" THEN b \in {NUL, E0} ELSE b = ESC

\* get_keypress: the number of bytes read after the introducer
ContinuationLength(os) == IF os = "nt" THEN Len(<<"H">>) ELSE Len(<<"[", "A">>)

\* no arrow key
NoArrow == ""

\* get_keypress: the arrow key a continuation stands for
ArrowOf(os, seq) ==
    IF os = "nt"
    THEN CASE seq = <<"H">> -> "up"
           [] seq = <<"P">> -> "down"
           [] seq = <<"K">> -> "left"
           [] seq = <<"M">> -> "right"
           [] OTHER -> NoArrow
    ELSE CASE seq = <<"[", "A">> -> "up"
           [] seq = <<"[", "B">> -> "down"
           [] seq = <<"[", "D">> -> "left"
           [] seq = <<"[", "C">> -> "right"
           [] OTHER -> NoArrow

\* get_keypress after an introducer and its continuation: the arrow key, and
\* for any other continuation None on nt, the introducer itself on posix
\* (no branch returns, control reaches `return key`)
DecodeSequence(os, first, seq) ==
    IF ArrowOf(os, seq) # NoArrow THEN ArrowOf(os, seq)
    ELSE IF os = "nt" THEN KeyNone
    ELSE first

\* the keys ask_input hands to handle_navigation_key in navigation mode
NavigationKeys == {"up", "down", "left", "right", Enter, "w", "a", "s", "d"}

\* the decimal digits
Digits == <<"0", "1", "2", "3", "4", "5", "6", "7", "8", "9">>

\* str.isnumeric() of a one-character string
IsDigit(b) == \E i \in 1..Len(Digits) : Digits[i] = b

\* str.isnumeric() of a text
IsNumeric(text) == text # << >> /\ \A i \in 1..Len(text) : IsDigit(text[i])

\* int(c) for a digit c
DigitValue(b) == (CHOOSE i \in 1..Len(Digits) : Digits[i] = b) - 1

\* int(text) for a numeric text
RECURSIVE IntOf(_)
IntOf(text) ==
    IF text = << >> THEN 0
    ELSE 10 * IntOf(SubSeq(text, 1, Len(text) - 1)) + DigitValue(text[Len(text)])

\* the position of the first byte of bytes that is in set, or 0
FirstOf(bytes, set) ==
    IF \E i \in 1..Len(bytes) : bytes[i] \in set
    THEN CHOOSE i \in 1..Len(bytes) : bytes[i] \in set /\ \A j \in 1..(i - 1) : bytes[j] \notin set
    ELSE 0

\* ------------------------------------------------------------- the loop

\* a UI with two pages, two elements on the first, as a program builds it
\* before it calls loop
BuiltUI ==
    /\ pages = <<1, 2>>
    /\ cur = 1
    /\ idx = 0
    /\ created = {1, 2}
    /\ elements = [p \in PageIds |-> IF p = 1 THEN <<1, 2>> ELSE << >>]
    /\ selected = [p \in PageIds |-> None]
    /\ made = {1, 2}
    /\ last = NoCall

\* ui.loop() is called, on a new UI or on a built one, on either platform; the
\* user types some bytes
InitLoop ==
    /\ InitUI \/ BuiltUI
    /\ InitAdapter
    /\ platform \in {"nt", "posix"}
    /\ stdin \in SeqsUpTo(BytesOf(platform), MaxInput)
    /\ mode = "cooked"
    /\ saved = NotSaved
    /\ pc = "loop"
    /\ got = << >>
    /\ keypress = NoKeyYet
    /\ error = "none"

\* the loop does not touch the element on its own, nor the call record
OnlyLoop == UNCHANGED <<adapterVars, last, platform>>

\* UI.loop before the while: a UI without pages gets a page
LoopStart ==
    /\ pc = "loop"
    /\ IF pages = << >>
       THEN LET p == Cardinality(created) + 1
                ps == Append(pages, p)
                c == AddPageCursor(ps, cur, idx, p)
                d == SetCurrentPage(ps, c.cur, c.idx, p)
            IN /\ pages' = ps
               /\ created' = created \cup {p}
               /\ elements' = [elements EXCEPT ![p] = << >>]
               /\ selected' = [selected EXCEPT ![p] = None]
               /\ cur' = d.cur
               /\ idx' = d.idx
       ELSE UNCHANGED <<pages, created, elements, selected, cur, idx>>
    /\ pc' = "ask"
    /\ UNCHANGED <<made, stdin, mode, saved, got, keypress, error>>
    /\ OnlyLoop

\* cls(), render(), and ask_input up to the first read of get_keypress: without
\* a current page ask_input returns at once; on posix the terminal settings
\* are saved (tcgetattr) and the terminal is set raw (tty.setraw)
GetKeypress ==
    /\ pc = "ask"
    /\ IF cur = None
       THEN UNCHANGED <<pc, mode, saved, got, keypress>>
       ELSE /\ pc' = "read"
            /\ saved' = IF platform = "posix" THEN mode ELSE saved
            /\ mode' = IF platform = "posix" THEN "raw" ELSE mode
            /\ got' = << >>
            /\ keypress' = NoKeyYet
    /\ UNCHANGED <<pages, cur, idx, created, elements, selected, made, stdin, error>>
    /\ OnlyLoop

\* get_keypress: msvcrt.getch() / sys.stdin.read(1) gets the first byte
ReadFirst ==
    /\ pc = "read"
    /\ stdin # << >>
    /\ LET b == Head(stdin)
       IN /\ stdin' = Tail(stdin)
          /\ got' = <<b>>
          /\ IF Interrupts(platform, b)
             THEN /\ error' = "KeyboardInterrupt"
                  /\ pc' = IF platform = "posix" THEN "finally" ELSE "raise"
                  /\ keypress' = keypress
             ELSE IF Introducer(platform, b)
             THEN /\ pc' = "read2"
                  /\ UNCHANGED <<keypress, error>>
             ELSE /\ keypress' = b
                  /\ pc' = IF platform = "posix" THEN "finally" ELSE "key"
                  /\ error' = error
    /\ UNCHANGED <<pages, cur, idx, created, elements, selected, made, mode, saved>>
    /\ OnlyLoop

\* get_keypress after the introducer: msvcrt.getch() / sys.stdin.read(2) gets
\* the continuation, waiting until all of it is there
ReadRest ==
    /\ pc = "read2"
    /\ Len(stdin) >= ContinuationLength(platform)
    /\ LET seq == SubSeq(stdin, 1, ContinuationLength(platform))
       IN /\ stdin' = SubSeq(stdin, ContinuationLength(platform) + 1, Len(stdin))
          /\ got' = got \o seq
          /\ keypress' = DecodeSequence(platform, got[1], seq)
    /\ pc' = IF platform = "posix" THEN "finally" ELSE "key"
    /\ UNCHANGED <<pages, cur, idx, created, elements, selected, made, mode, saved, error>>
    /\ OnlyLoop

\* get_keypress: the read fails (the terminal is gone): OSError is raised
ReadFails ==
    /\ pc \in {"read", "read2"}
    /\ error' = "OSError"
    /\ pc' = IF platform = "posix" THEN "finally" ELSE "raise"
    /\ UNCHANGED <<pages, cur, idx, created, elements, selected, made, stdin, mode, saved, got, keypress>>
    /\ OnlyLoop

\* a get_keypress that puts the settings back after the reads, without a
\* finally: an exception leaves the terminal as it is
RestoreOnReturn ==
    /\ pc = "finally"
    /\ mode' = IF error # "none" THEN mode ELSE saved
    /\ pc' = IF error # "none" THEN "raise" ELSE "key"
    /\ UNCHANGED <<pages, cur, idx, created, elements, selected, made, stdin, saved, got, keypress, error>>
    /\ OnlyLoop

\* get_keypress (posix), finally: the saved settings are put back (tcsetattr),
\* then the key is returned or the exception goes on
Restore ==
    /\ pc = "finally"
    /\ mode' = saved
    /\ pc' = IF error # "none" THEN "raise" ELSE "key"
    /\ UNCHANGED <<pages, cur, idx, created, elements, selected, made, stdin, saved, got, keypress, error>>
    /\ OnlyLoop

\* ask_input (navigation mode) with the key get_keypress returned: a
\* navigation key goes to handle_navigation_key; key.isnumeric() is asked of
\* any other key, and None has no such attribute; a digit starts a line
Dispatch ==
    /\ pc = "key"
    /\ IF keypress \in NavigationKeys
       THEN LET r == HandleNavigationKey(keypress)
            IN /\ selected' = r.selected
               /\ cur' = r.cur
               /\ idx' = r.idx
               /\ error' = r.raised
               /\ pc' = IF r.raised # "none" THEN "raise" ELSE "ask"
       ELSE /\ UNCHANGED <<selected, cur, idx>>
            /\ IF keypress = KeyNone
               THEN error' = "AttributeError" /\ pc' = "raise"
               ELSE error' = error /\ pc' = IF IsDigit(keypress) THEN "line" ELSE "ask"
    /\ UNCHANGED <<pages, created, elements, made, stdin, mode, saved, got, keypress>>
    /\ OnlyLoop

\* ask_input after a digit: input() reads the line up to Enter, the terminal
\* being cooked, where Ctrl+C interrupts; a numeric text chooses an element
ReadLine ==
    /\ pc = "line"
    /\ FirstOf(stdin, {Enter, ETX}) # 0
    /\ LET n == FirstOf(stdin, {Enter, ETX})
           text == <<keypress>> \o SubSeq(stdin, 1, n - 1)
       IN /\ stdin' = SubSeq(stdin, n + 1, Len(stdin))
          /\ IF stdin[n] = ETX
             THEN /\ error' = "KeyboardInterrupt"
                  /\ pc' = "raise"
                  /\ UNCHANGED <<selected, cur, idx>>
             ELSE IF IsNumeric(text)
             THEN LET r == AskNumber(IntOf(text))
                  IN /\ selected' = r.selected
                     /\ cur' = r.cur
                     /\ idx' = r.idx
                     /\ error' = r.raised
                     /\ pc' = IF r.raised # "none" THEN "raise" ELSE "ask"
             ELSE /\ pc' = "ask"
                  /\ UNCHANGED <<selected, cur, idx, error>>
    /\ UNCHANGED <<pages, created, elements, made, mode, saved, got, keypress>>
    /\ OnlyLoop

\* the exception leaves ask_input and loop, which have no handler: loop ends
Unwind ==
    /\ pc = "raise"
    /\ pc' = "ended"
    /\ UNCHANGED <<pages, cur, idx, created, elements, selected, made, stdin, mode, saved, got, keypress, error>>
    /\ OnlyLoop

NextLoop ==
    \/ LoopStart
    \/ GetKeypress
    \/ ReadFirst
    \/ ReadRest
    \/ ReadFails
    \/ Restore
    \/ Dispatch
    \/ ReadLine
    \/ Unwind

SpecLoop == InitLoop /\ [][NextLoop]_vars

\* =============================================================== claims

\* the state the recorded call started in
pre == last.pre

\* the elements and the selection of the page that was current at the start
PreElems == pre.elements[pre.cur]
PreSel == pre.selected[pre.cur]

\* the cursor is on a member: the index is in range and names the current page
CursorOnMember(ps, c, i) == 0 <= i /\ i < Len(ps) /\ c = ps[i + 1]

\* C1: after any sequence of operations, a UI with pages has its cursor on a
\* member (0 <= current_page_index < len(pages), current_page =
\* pages[current_page_index]), and a UI without pages has no current page
C1_CursorInvariant ==
    /\ pages # << >> => CursorOnMember(pages, cur, idx)
    /\ pages = << >> => cur = None /\ idx = -1

\* C2: handle_navigation_key returns normally for every key in every state
C2_HandleKeyTotal ==
    last.op = "handle_key" => last.raised = "none"

\* the payload of element e fits its command: __call__ hands the command the
\* number of arguments it accepts
PayloadFits(e) ==
    \/ Accepts(ElemCommand(e)) = 0 /\ ~ElemParams(e).tuple
    \/ Accepts(ElemCommand(e)) = 1
    \/ ElemParams(e).tuple /\ Len(ElemParams(e).vals) = Accepts(ElemCommand(e))

\* the call was ask_input with a number that names an element of the page
DigitInRange ==
    /\ last.op = "ask_input"
    /\ pre.cur # None
    /\ 1 <= last.i
    /\ last.i <= Len(PreElems)

\* C3: a typed number k with 1 <= k <= n invokes E[k-1] and no other element,
\* once, whatever the selection is; the command of E[k-1] is executed once
\* when its payload fits; the digit path itself writes no selection, no page
\* list and, unless the command is goto, no cursor
C3_DigitInvokesChosen ==
    DigitInRange =>
        LET e == PreElems[last.i]
        IN /\ last.calls = IF ElemCommand(e) = NoCommand THEN << >> ELSE <<e>>
           /\ last.ran \in {<< >>, <<e>>}
           /\ ElemCommand(e) # NoCommand /\ PayloadFits(e) => last.ran = <<e>> /\ last.raised = "none"
           /\ selected = pre.selected
           /\ pages = pre.pages
           /\ elements = pre.elements
           /\ ElemCommand(e) # "goto" => cur = pre.cur /\ idx = pre.idx

\* C3 witness: the number 1 was typed on a page whose second element is
\* selected, and the command of the first element, and only it, was executed
C3_Witness ==
    /\ DigitInRange
    /\ last.i = 1
    /\ Len(PreElems) = 2
    /\ PreSel = PreElems[2]
    /\ last.ran = <<PreElems[1]>>
    /\ last.calls = <<PreElems[1]>>

\* C4: a typed number outside [1, n] invokes nothing, raises nothing and
\* changes neither the pages, the cursor nor any selection
C4_DigitOutOfRangeIgnored ==
    (/\ last.op = "ask_input"
     /\ pre.cur # None
     /\ (last.i < 1 \/ last.i > Len(PreElems)))
    => /\ last.calls = << >>
       /\ last.ran = << >>
       /\ last.raised = "none"
       /\ pages = pre.pages
       /\ idx = pre.idx
       /\ cur = pre.cur
       /\ selected = pre.selected

\* C5: Enter with a selected element E[s] whose payload fits invokes it once
\* and returns that element, whatever its command does; Enter with no
\* selection invokes nothing, changes nothing and returns nothing
C5_EnterActivatesSelected ==
    (last.op = "handle_key" /\ last.s = Enter /\ pre.cur # None) =>
        IF PreSel = None
        THEN /\ last.calls = << >>
             /\ last.ret = None
             /\ last.raised = "none"
             /\ Snapshot = pre
        ELSE (Contains(PreElems, PreSel) /\ PayloadFits(PreSel)) =>
                /\ last.raised = "none"
                /\ last.ret = PreSel
                /\ ElemCommand(PreSel) # NoCommand => last.ran = <<PreSel>>

\* the call was one of the keys on a UI that has a current page
KeyOnPage(keys) ==
    /\ last.op = "handle_key"
    /\ last.s \in keys
    /\ pre.cur # None

\* the selection of the current page is the only thing the call may have written
OnlyCurrentSelectionWritten ==
    /\ pages = pre.pages
    /\ cur = pre.cur
    /\ idx = pre.idx
    /\ elements = pre.elements
    /\ \A p \in PageIds : p # pre.cur => selected[p] = pre.selected[p]

\* C6: Up and Down move the selection of the current page by at most one
\* position and never wrap.  Unset and n >= 1: Up selects E[n-1], Down E[0].
\* Set to E[s]: Up gives E[s-1], and E[0] stays; Down gives E[s+1], and E[n-1]
\* stays.  Nothing but that selection is written.  Elements are told apart by
\* identity, so equal labels make no difference
C6_UpDownNoWrap ==
    KeyOnPage({"w", "up", "s", "down"}) =>
        LET up == last.s \in {"w", "up"}
            n == Len(PreElems)
        IN /\ OnlyCurrentSelectionWritten
           /\ (PreSel = None /\ n >= 1) =>
                 /\ last.raised = "none"
                 /\ selected[cur] = IF up THEN PreElems[n] ELSE PreElems[1]
           /\ \A i \in 1..n : PreSel = PreElems[i] =>
                 /\ last.raised = "none"
                 /\ selected[cur] = IF up
                                    THEN (IF i > 1 THEN PreElems[i - 1] ELSE PreElems[i])
                                    ELSE (IF i < n THEN PreElems[i + 1] ELSE PreElems[i])
           /\ (PreSel = None /\ n = 0) => selected[cur] = None
           /\ (PreSel # None /\ ~Contains(PreElems, PreSel)) => selected[cur] = PreSel

\* C6 witness: Down on the last of two elements, whose label the first
\* element carries too, left the last element selected
C6_Witness ==
    /\ KeyOnPage({"down"})
    /\ Len(PreElems) = 2
    /\ PreSel = PreElems[2]
    /\ ElemLabel(PreElems[1]) = ElemLabel(PreElems[2])
    /\ selected[cur] = PreElems[2]
    /\ last.raised = "none"

\* C7: Right/'d' (step 1) and Left/'a' (step -1) clear the selection of the
\* page that was current, then move current_page_index by the step only if the
\* result is in range; no other selection is written and nothing is raised
C7_LeftRightNoWrap ==
    KeyOnPage({"d", "right", "a", "left"}) =>
        LET step == IF last.s \in {"d", "right"} THEN 1 ELSE -1
            to == pre.idx + step
        IN /\ last.raised = "none"
           /\ selected = [pre.selected EXCEPT ![pre.cur] = None]
           /\ pages = pre.pages
           /\ idx = IF 0 <= to /\ to < Len(pre.pages) THEN to ELSE pre.idx
           /\ cur = IF 0 <= to /\ to < Len(pre.pages) THEN pre.pages[to + 1] ELSE pre.cur

\* C8: the selection of every page is none or one of that page's elements
C8_SelectionIsMember ==
    \A p \in PageIds : selected[p] = None \/ Contains(elements[p], selected[p])

\* the first page of ps that carries the label, or None
FirstLabelled(ps, label) ==
    IF \E k \in 1..Len(ps) : PageLabel(ps[k]) = label
    THEN ps[CHOOSE k \in 1..Len(ps) :
                PageLabel(ps[k]) = label /\ \A j \in 1..(k-1) : PageLabel(ps[j]) # label]
    ELSE None

\* the call was delete_page given a string
DeleteByString == last.op = "delete_page" /\ last.p = None

\* C9: delete_page given the label of a page removes the first page with that
\* label and nothing else, in order, without raising; delete_page given a
\* member page removes exactly that page
C9_DeletePageRemovesNamed ==
    /\ (DeleteByString /\ FirstLabelled(pre.pages, last.s) # None) =>
          /\ last.raised = "none"
          /\ pages = PyRemove(pre.pages, FirstLabelled(pre.pages, last.s))
    /\ (last.op = "delete_page" /\ last.p # None /\ Contains(pre.pages, last.p)) =>
          /\ last.raised = "none"
          /\ pages = PyRemove(pre.pages, last.p)

\* C10: delete_page given a string that is the label of no page raises
\* ValueError (NotFound) and leaves the page list and the cursor as they were
C10_DeleteMissingNameRaises ==
    (DeleteByString /\ FirstLabelled(pre.pages, last.s) = None) =>
        /\ last.raised = "ValueError"
        /\ pages = pre.pages
        /\ cur = pre.cur
        /\ idx = pre.idx

\* C10 witness: a UI with pages was asked to delete a label none of them
\* carries, and the call raised
C10_Witness ==
    /\ DeleteByString
    /\ Len(pre.pages) = MaxPages
    /\ FirstLabelled(pre.pages, last.s) = None
    /\ last.raised = "ValueError"
    /\ pages = pre.pages

\* the call was delete_page given a page object that is no member of pages
DeleteNonMember ==
    /\ last.op = "delete_page"
    /\ last.p # None
    /\ ~Contains(pre.pages, last.p)

\* C11: delete_page given a page that is not a member of pages (a page of
\* another UI, or a page already deleted) raises nothing and leaves the page
\* list, the current page and current_page_index unchanged
C11_DeleteNonMemberSilent ==
    DeleteNonMember =>
        /\ last.raised = "none"
        /\ pages = pre.pages
        /\ cur = pre.cur
        /\ idx = pre.idx

\* C12: current_page_index = n takes effect (the index is n and the current
\* page is pages[n]) exactly when 0 <= n < len(pages); any other n, -1 and
\* len(pages) included, raises nothing and leaves index and current page alone
C12_SetIndexInRangeOnly ==
    last.op = "set_current_index" =>
        /\ last.raised = "none"
        /\ pages = pre.pages
        /\ selected = pre.selected
        /\ IF 0 <= last.i /\ last.i < Len(pre.pages)
           THEN idx = last.i /\ cur = pre.pages[last.i + 1]
           ELSE idx = pre.idx /\ cur = pre.cur

\* C12 witness: with two pages and the cursor on the first, the index -1 was
\* asked for and the cursor stayed on the first page
C12_Witness ==
    /\ last.op = "set_current_index"
    /\ last.i = -1
    /\ Len(pre.pages) = 2
    /\ CursorOnMember(pre.pages, pre.cur, pre.idx)
    /\ pre.idx = 0
    /\ idx = 0
    /\ cur = pages[1]

\* the call was goto of the page the call before, add_page, returned
GotoAfterAddPage ==
    /\ last.op = "goto"
    /\ last.held.page # None
    /\ last.p = last.held.page

\* C13: goto(page) makes a member page current, with current_page_index its
\* position; for a non-member it raises nothing and changes nothing.  goto of
\* the page add_page(label) has just returned leaves current_page.label = label
C13_GotoMemberOnly ==
    /\ last.op = "goto" =>
          /\ last.raised = "none"
          /\ pages = pre.pages
          /\ selected = pre.selected
          /\ IF Contains(pre.pages, last.p)
             THEN cur = last.p /\ 0 <= idx /\ idx < Len(pages) /\ pages[idx + 1] = last.p
             ELSE cur = pre.cur /\ idx = pre.idx
    /\ GotoAfterAddPage => cur # None /\ PageLabel(cur) = last.held.label

\* C13 witness: the second page was added to a UI whose cursor was on the
\* first, and goto of the page returned made it current
C13_Witness ==
    /\ GotoAfterAddPage
    /\ Len(pre.pages) = 2
    /\ pre.idx = 0
    /\ pre.cur # last.p
    /\ cur = last.p
    /\ idx = 1
    /\ PageLabel(cur) = last.held.label

\* C14: add_page raises nothing and appends one new page, with no elements and
\* no selection, at the end of pages, the pages before it as they were; the
\* new page becomes current exactly when pages was empty before the call,
\* otherwise the current page and current_page_index stay
C14_AddPageAppends ==
    last.op = "add_page" =>
        /\ last.raised = "none"
        /\ last.ret # None
        /\ ~Contains(pre.pages, last.ret)
        /\ pages = Append(pre.pages, last.ret)
        /\ PageLabel(last.ret) = last.s
        /\ elements[last.ret] = << >>
        /\ selected[last.ret] = None
        /\ \A p \in PageIds : p # last.ret =>
              elements[p] = pre.elements[p] /\ selected[p] = pre.selected[p]
        /\ IF pre.pages = << >>
           THEN cur = last.ret /\ idx = 0
           ELSE cur = pre.cur /\ idx = pre.idx

\* C14 witness: a page was added to a UI that had one, and the cursor stayed
\* on the page it was on
C14_Witness ==
    /\ last.op = "add_page"
    /\ Len(pre.pages) = 1
    /\ Len(pages) = 2
    /\ pages[2] = last.ret
    /\ cur = pre.cur
    /\ cur = pages[1]
    /\ idx = 0

\* the element on its own has been called, and a command is bound to it
Called == result # NotCalled /\ command # NoCommand

\* the number of positional arguments the bound command expects
Arity == Accepts(command)

\* C15: an element whose command takes no argument calls it once with no
\* argument and raises nothing, whatever the payload: none, a single value,
\* and also a tuple, which is not passed
C15_ArityZeroIgnoresPayload ==
    (Called /\ Arity = 0 /\ ~Variadic(command)) =>
        /\ result.ran
        /\ result.args = << >>
        /\ result.raised = "none"

\* C16: an element whose command takes one argument calls it once with the
\* payload as that argument, whatever its shape: a tuple or a list is passed
\* whole, not unpacked
C16_ArityOnePassesWhole ==
    (Called /\ Arity = 1) =>
        /\ result.ran
        /\ result.args = <<params>>
        /\ result.raised = "none"

\* C16 witness: a one-argument function bound with the tuple (1, 2) was
\* called with the tuple as its argument
C16_Witness ==
    /\ Called
    /\ command = "switch"
    /\ params = TuplePayload(<<1, 2>>)
    /\ result.ran
    /\ result.args = <<TuplePayload(<<1, 2>>)>>

\* C17: an element whose command takes a >= 2 arguments calls it once with the
\* payload's values in order when the payload is a sequence of exactly a
\* values; a payload that is missing, no sequence or of another length raises
\* TypeError (InvalidInvocation) and the command's body is not executed
C17_ArityManyUnpacks ==
    (Called /\ Arity >= 2) =>
        IF params.iter /\ Len(params.vals) = Arity
        THEN /\ result.ran
             /\ result.args = params.vals
             /\ result.raised = "none"
        ELSE /\ ~result.ran
             /\ result.raised = "TypeError"

\* C17 witness: a three-argument function bound with the tuple (1, 2) was
\* called, TypeError was raised and the body did not run
C17_Witness ==
    /\ Called
    /\ command = "add3"
    /\ params = TuplePayload(<<1, 2>>)
    /\ ~result.ran
    /\ result.raised = "TypeError"

\* the call was Enter on a selected element without a command, or a typed
\* number that names an element without a command
UnboundInvoked ==
    /\ pre.cur # None
    /\ \/ /\ last.op = "handle_key"
          /\ last.s = Enter
          /\ PreSel # None
          /\ ElemCommand(PreSel) = NoCommand
       \/ /\ last.op = "ask_input"
          /\ DigitAccepted(last.i, Len(PreElems))
          /\ PyValidIndex(PreElems, DigitIndex(last.i))
          /\ ElemCommand(PyGet(PreElems, DigitIndex(last.i))) = NoCommand

\* C18: invoking an element without a bound command, by Enter or by a typed
\* number, calls nothing, raises nothing and leaves pages, cursor and
\* selections as they were, whatever payload the element holds
C18_UnboundIsNoOp ==
    UnboundInvoked =>
        /\ last.calls = << >>
        /\ last.ran = << >>
        /\ last.raised = "none"
        /\ Snapshot = pre
        /\ \A pl \in Payloads :
              LET r == Invoke(NoCommand, pl)
              IN ~r.entered /\ ~r.ran /\ r.raised = "none"

\* C18 witness: Enter on the selected second element of a page, an element
\* without a command, returned with nothing called
C18_Witness ==
    /\ UnboundInvoked
    /\ last.op = "handle_key"
    /\ Len(PreElems) = 2
    /\ PreSel = PreElems[2]
    /\ last.calls = << >>
    /\ last.raised = "none"
    /\ last.ret = PreSel

\* the first byte the running (or last) get_keypress call read was Ctrl+C
InterruptRead == pc # "off" /\ got # << >> /\ got[1] = ETX

\* C19: when get_keypress reads the interrupt byte as a key, it returns no
\* key: KeyboardInterrupt is raised and, since neither ask_input nor loop
\* handles it, the loop reads nothing more and ends
C19_InterruptPropagates ==
    InterruptRead =>
        /\ keypress = NoKeyYet
        /\ error = "KeyboardInterrupt"
        /\ pc \in {"finally", "raise", "ended"}
        /\ Len(got) = 1

\* C19 witness: on posix Ctrl+C was typed with more bytes behind it, and the
\* loop has ended with KeyboardInterrupt, those bytes unread
C19_Witness ==
    /\ InterruptRead
    /\ platform = "posix"
    /\ pc = "ended"
    /\ error = "KeyboardInterrupt"
    /\ keypress = NoKeyYet
    /\ stdin # << >>

\* the arrow key of a canonical sequence: ESC [ A/B/C/D on a posix terminal,
\* the prefix and H/P/K/M on the nt console
CanonicalArrow(os, bytes) ==
    IF os = "nt"
    THEN CASE bytes \in {<<NUL, "H">>, <<E0, "H">>} -> "up"
           [] bytes \in {<<NUL, "P">>, <<E0, "P">>} -> "down"
           [] bytes \in {<<NUL, "K">>, <<E0, "K">>} -> "left"
           [] bytes \in {<<NUL, "M">>, <<E0, "M">>} -> "right"
           [] OTHER -> KeyNone
    ELSE CASE bytes = <<ESC, "[", "A">> -> "up"
           [] bytes = <<ESC, "[", "B">> -> "down"
           [] bytes = <<ESC, "[", "D">> -> "left"
           [] bytes = <<ESC, "[", "C">> -> "right"
           [] OTHER -> KeyNone

\* get_keypress has returned a value to ask_input
KeyReturned == pc = "key" /\ got # << >>

\* C20: after the escape introducer get_keypress reads exactly two further
\* bytes in the same call and returns up, down, left or right for the four
\* canonical sequences and None for any other continuation; a call that
\* starts with any other byte reads that byte only
C20_EscapeSequences ==
    KeyReturned =>
        IF Introducer(platform, got[1])
        THEN /\ Len(got) = 3
             /\ keypress = CanonicalArrow(platform, got)
        ELSE Len(got) = 1

\* control is inside get_keypress, between setting the terminal up and the
\* end of its finally
InGetKeypress == pc \in {"read", "read2", "finally"}

\* C21: a get_keypress call that set the terminal raw has put the mode it
\* found back when control leaves the call, whether a key is returned, the
\* sequence was no arrow, the read failed or Ctrl+C was read (before the
\* KeyboardInterrupt reaches ask_input); so the terminal is never raw while
\* render, ask_input's own code or handle_navigation_key runs
C21_RawModeRestored ==
    /\ mode = "raw" => InGetKeypress
    /\ (~InGetKeypress /\ saved # NotSaved) => mode = saved
    /\ ~InGetKeypress => mode = "cooked"

\* C21 witness: on posix Ctrl+C was read in raw mode, and the
\* KeyboardInterrupt has left the loop with the terminal cooked again
C21_Witness ==
    /\ platform = "posix"
    /\ InterruptRead
    /\ error = "KeyboardInterrupt"
    /\ pc = "ended"
    /\ saved = "cooked"
    /\ mode = "cooked"

\* C22: when get_keypress returns None, ask_input and loop raise nothing,
\* leave pages, cursor and selections as they were, and the loop goes on to
\* its next render and read
C22_DecodeMissTolerated ==
    [][(pc = "key" /\ keypress = KeyNone) =>
          /\ pc' = "ask"
          /\ error' = "none"
          /\ UNCHANGED <<pages, cur, idx, elements, selected>>]_vars

====
